---- MODULE Spec2Model ----
(***************************************************************************)
(* Application status workflow and wallet commission ledger of the         *)
(* scholarship portal.  One application, its assigned agent and HQ user,   *)
(* their two wallets, the withdrawal requests and the transaction log.     *)
(* Money is counted in cents (100.00 is 10000).                            *)
(***************************************************************************)
EXTENDS Integers, Sequences, FiniteSets, TLC

VARIABLES app, status_history, admission_letters, jw02_forms, scholarship,
          wallets, withdrawal_requests, wallet_transactions, calls, last,
          pc, loc, initial_wallets

vars == <<app, status_history, admission_letters, jw02_forms, scholarship,
          wallets, withdrawal_requests, wallet_transactions, calls, last,
          pc, loc, initial_wallets>>

(* ------------------------------ bounds -------------------------------- *)

MaxHistory == 9

MaxLedgerHistory == 8

MaxAdminHistory == 10

MaxEdits == 1

MaxUploads == 2

MaxRequests == 2
MaxQueue == 10

(* ---------------------------- data model ------------------------------ *)

STATUS_CHOICES ==
  {"draft", "submitted", "under_review", "documents_verified",
   "payment_verified", "approved", "rejected", "in_progress",
   "admission_letter_uploaded", "admission_letter_approved",
   "jw02_uploaded", "jw02_approved", "letter_pending", "jw02_pending",
   "complete"}

Agent == "agent"

Hq == "hq"

Office == "office"

\* a user with a wallet who has no role on the application
Other == "other"

WalletUsers == {Agent, Hq, Other}

\* the two users assigned to the application
Parties == {Agent, Hq}

\* the reason the admin action passes to reject_withdrawal
AdminReason == "Rejected by admin"

ZeroWallet ==
  [current_balance |-> 0, upcoming_payments |-> 0, pending_withdrawals |-> 0,
   total_earned |-> 0, total_withdrawn |-> 0]

NoDocs == [pending_verification |-> 0, approved |-> 0, revision_requested |-> 0]

MinWithdrawal == 10000

AgentCommissions == {0, 15000}

HqCommissions == {0, 10000}

WithdrawAmounts == {5000, 10000, 15000}

Procs == {"p1", "p2"}

\* approved_date and completed_date hold the time of the stamp, 0 for null;
\* the clock is the number of status changes made so far
NewApplication ==
  [status |-> "draft", assigned_agent |-> FALSE, assigned_hq |-> FALSE,
   approved_date |-> 0, completed_date |-> 0]

\* the objects a request handler holds in memory
IdleLoc ==
  [op |-> "none", user |-> "none", amount |-> 0, application |-> NewApplication,
   wallet |-> [u \in WalletUsers |-> ZeroWallet], result |-> "none",
   req |-> 0,
   request |-> [wallet |-> "none", amount |-> 0, status |-> "none",
                rejection_reason |-> "none"]]

(* ------------------- scholarships/utils.py ----------------------------- *)

\* application.status = new_status; application.save()
SaveStatus(a, new_status) == [a EXCEPT !.status = new_status]

\* variant: every status change stamps approved_date
Stamp_always_approved(a, new_status, now) ==
  IF new_status = "complete" THEN [a EXCEPT !.completed_date = now]
  ELSE [a EXCEPT !.approved_date = now]

\* if new_status == 'approved': approved_date = now
\* elif new_status == 'complete': completed_date = now
Stamp(a, new_status, now) ==
  IF new_status = "approved" THEN [a EXCEPT !.approved_date = now]
  ELSE IF new_status = "complete" THEN [a EXCEPT !.completed_date = now]
  ELSE a

\* timezone.now()
Now(h) == Len(h) + 1

\* ApplicationStatusHistory.objects.create(...)
CreateHistory(h, old_status, new_status, changed_by) ==
  Append(h, [application |-> 1, old_status |-> old_status,
             new_status |-> new_status, changed_by |-> changed_by])

(* ------------------- finance/services.py ------------------------------- *)

Earning(u, amount) ==
  [wallet |-> u, application |-> 1, type |-> "earning", amount |-> amount,
   status |-> "pending", ref |-> 0]

BalanceTransfer(u, amount) ==
  [wallet |-> u, application |-> 1, type |-> "balance_transfer",
   amount |-> amount, status |-> "completed", ref |-> 0]

WithdrawalTx(u, amount, id) ==
  [wallet |-> u, application |-> 0, type |-> "withdrawal", amount |-> amount,
   status |-> "pending", ref |-> id]

\* the user's role on the application and the matching commission
Assigned(a, u) ==
  IF u = Agent THEN a.assigned_agent
  ELSE IF u = Hq THEN a.assigned_hq
  ELSE FALSE

Commission(s, u) ==
  IF u = Agent THEN s.agent_commission
  ELSE IF u = Hq THEN s.hq_commission
  ELSE 0

\* if application.assigned_X and scholarship.X_commission > 0
Earns(a, s, u) == Assigned(a, u) /\ Commission(s, u) > 0

\* variant: the commission is also paid into the balance
CreditWallet_into_balance(w, c) ==
  [w EXCEPT !.upcoming_payments = @ + c, !.current_balance = @ + c]

\* wallet.upcoming_payments += commission
CreditWallet(w, c) == [w EXCEPT !.upcoming_payments = @ + c]

\* variant: the release is not counted as earned
ReleaseWallet_not_earned(w, c) ==
  [w EXCEPT !.upcoming_payments = @ - c, !.current_balance = @ + c]

\* upcoming -= c; current_balance += c; total_earned += c
ReleaseWallet(w, c) ==
  [w EXCEPT !.upcoming_payments = @ - c,
            !.current_balance = @ + c,
            !.total_earned = @ + c]

\* add_upcoming_payments: the wallets after the call
add_upcoming_wallets(ws, a, s) ==
  [u \in WalletUsers |->
     IF Earns(a, s, u) THEN CreditWallet(ws[u], Commission(s, u)) ELSE ws[u]]

\* add_upcoming_payments: the transaction log after the call (agent first)
add_upcoming_log(log, a, s) ==
  LET l1 == IF Earns(a, s, Agent)
            THEN Append(log, Earning(Agent, Commission(s, Agent))) ELSE log
  IN  IF Earns(a, s, Hq)
      THEN Append(l1, Earning(Hq, Commission(s, Hq))) ELSE l1

\* move_to_balance: the wallets after the call
move_to_balance_wallets(ws, a, s) ==
  [u \in WalletUsers |->
     IF Earns(a, s, u) THEN ReleaseWallet(ws[u], Commission(s, u)) ELSE ws[u]]

\* filter(wallet, application, type='earning', status='pending').update('completed')
CompleteEarnings(log, u) ==
  [i \in 1..Len(log) |->
     IF log[i].wallet = u /\ log[i].application = 1
        /\ log[i].type = "earning" /\ log[i].status = "pending"
     THEN [log[i] EXCEPT !.status = "completed"] ELSE log[i]]

\* move_to_balance: the transaction log after the call (agent first)
move_to_balance_log(log, a, s) ==
  LET l1 == IF Earns(a, s, Agent)
            THEN Append(CompleteEarnings(log, Agent),
                        BalanceTransfer(Agent, Commission(s, Agent)))
            ELSE log
  IN  IF Earns(a, s, Hq)
      THEN Append(CompleteEarnings(l1, Hq),
                  BalanceTransfer(Hq, Commission(s, Hq)))
      ELSE l1

\* variant: the balance is validated before the minimum
request_withdrawal_check_swapped(w, amount) ==
  IF w.current_balance < amount THEN "InsufficientFunds"
  ELSE IF amount < MinWithdrawal THEN "BelowMinimum"
  ELSE "ok"

\* variant: the balance is not validated
request_withdrawal_check_unfunded(w, amount) ==
  IF amount < MinWithdrawal THEN "BelowMinimum" ELSE "ok"

\* request_withdrawal: the two validations, in the order of the code
request_withdrawal_check(w, amount) ==
  IF amount < MinWithdrawal THEN "BelowMinimum"
  ELSE IF w.current_balance < amount THEN "InsufficientFunds"
  ELSE "ok"

\* WithdrawalRequest.objects.create(wallet, amount, status='pending')
NewRequest(u, amount) ==
  [wallet |-> u, amount |-> amount, status |-> "pending",
   rejection_reason |-> "none"]

\* variant: the amount leaves the balance without being held
HoldWallet_not_held(w, amount) == [w EXCEPT !.current_balance = @ - amount]

\* current_balance -= amount; pending_withdrawals += amount
HoldWallet(w, amount) ==
  [w EXCEPT !.current_balance = @ - amount,
            !.pending_withdrawals = @ + amount]

\* variant: the state of the request is not validated
withdrawal_is_pending_any(req) == req.status \in {"pending", "approved", "rejected"}

\* variant: only a rejected request is refused
withdrawal_is_pending_lax(req) == req.status # "rejected"

\* approve_withdrawal / reject_withdrawal: the state check
withdrawal_is_pending(req) == req.status = "pending"

\* variant: the payout is not added to total_withdrawn
PayOutWallet_not_counted(w, amount) ==
  [w EXCEPT !.pending_withdrawals = @ - amount]

\* variant: the held amount stays in pending_withdrawals
PayOutWallet_keeps_pending(w, amount) ==
  [w EXCEPT !.total_withdrawn = @ + amount]

\* pending_withdrawals -= amount; total_withdrawn += amount
PayOutWallet(w, amount) ==
  [w EXCEPT !.pending_withdrawals = @ - amount,
            !.total_withdrawn = @ + amount]

\* variant: the held amount is not returned to the balance
ReturnWallet_keeps_balance(w, amount) ==
  [w EXCEPT !.pending_withdrawals = @ - amount]

\* pending_withdrawals -= amount; current_balance += amount
ReturnWallet(w, amount) ==
  [w EXCEPT !.pending_withdrawals = @ - amount,
            !.current_balance = @ + amount]

RECURSIVE Pow10(_)
Pow10(k) == IF k = 0 THEN 1 ELSE 10 * Pow10(k - 1)

\* description__contains=f"#{id}" on "Withdrawal request #<ref> - $<amount>":
\* the digits of id are a prefix of the digits of ref
DescriptionContains(ref, id) ==
  ref > 0 /\ \E k \in 0..3 : ref \div Pow10(k) = id

\* filter(wallet, type='withdrawal', status='pending', amount, description__contains).update(status)
UpdateWithdrawalTx(log, u, amount, id, new_status) ==
  [i \in 1..Len(log) |->
     IF log[i].wallet = u /\ log[i].type = "withdrawal"
        /\ log[i].status = "pending" /\ log[i].amount = amount
        /\ DescriptionContains(log[i].ref, id)
     THEN [log[i] EXCEPT !.status = new_status] ELSE log[i]]


\* variant: the wallet is read again from the stored row inside the call
approve_withdrawal_reloaded(w, ws, reqs, log, r) ==
  IF ~withdrawal_is_pending(reqs[r])
  THEN [wallets |-> ws, requests |-> reqs, log |-> log,
        result |-> "InvalidState"]
  ELSE [wallets |-> [ws EXCEPT ![reqs[r].wallet] =
                       PayOutWallet(@, reqs[r].amount)],
        requests |-> [reqs EXCEPT ![r].status = "approved"],
        log |-> UpdateWithdrawalTx(log, reqs[r].wallet, reqs[r].amount, r,
                                   "completed"),
        result |-> "ok"]

\* approve_withdrawal(withdrawal, admin_user): withdrawal.wallet is the Wallet
\* object w held by the caller's request object; its save() writes that whole
\* object over the stored row
approve_withdrawal_loaded(w, ws, reqs, log, r) ==
  IF ~withdrawal_is_pending(reqs[r])
  THEN [wallets |-> ws, requests |-> reqs, log |-> log,
        result |-> "InvalidState"]
  ELSE [wallets |-> [ws EXCEPT ![reqs[r].wallet] =
                       PayOutWallet(w, reqs[r].amount)],
        requests |-> [reqs EXCEPT ![r].status = "approved"],
        log |-> UpdateWithdrawalTx(log, reqs[r].wallet, reqs[r].amount, r,
                                   "completed"),
        result |-> "ok"]

\* reject_withdrawal(withdrawal, admin_user, reason), likewise
reject_withdrawal_loaded(w, ws, reqs, log, r, reason) ==
  IF ~withdrawal_is_pending(reqs[r])
  THEN [wallets |-> ws, requests |-> reqs, log |-> log,
        result |-> "InvalidState"]
  ELSE [wallets |-> [ws EXCEPT ![reqs[r].wallet] =
                       ReturnWallet(w, reqs[r].amount)],
        requests |-> [reqs EXCEPT ![r].status = "rejected",
                                  ![r].rejection_reason = reason],
        log |-> UpdateWithdrawalTx(log, reqs[r].wallet, reqs[r].amount, r,
                                   "cancelled"),
        result |-> "ok"]

\* approve_withdrawal on a request just read from the stored rows
approve_withdrawal(ws, reqs, log, r) ==
  approve_withdrawal_loaded(ws[reqs[r].wallet], ws, reqs, log, r)

\* reject_withdrawal on a request just read from the stored rows
reject_withdrawal(ws, reqs, log, r, reason) ==
  reject_withdrawal_loaded(ws[reqs[r].wallet], ws, reqs, log, r, reason)

\* change_application_status: the Application row and the history after it
change_application_status(a, h, new_status, changed_by) ==
  [app |-> SaveStatus(Stamp(a, new_status, Now(h)), new_status),
   history |-> CreateHistory(h, a.status, new_status, changed_by)]

(* ------------------------------ state --------------------------------- *)

\* the record of the last call: what was called, by whom, its outcome, and
\* the wallets as they were when it was called
NoCall(ws) ==
  [op |-> "none", result |-> "none", user |-> "none", amount |-> 0,
   req |-> 0, before |-> ws]

Init ==
  /\ app = NewApplication
  /\ status_history = <<>>
  /\ admission_letters = NoDocs
  /\ jw02_forms = NoDocs
  /\ \E ac \in AgentCommissions, hc \in HqCommissions :
       scholarship = [agent_commission |-> ac, hq_commission |-> hc]
  /\ wallets = [u \in WalletUsers |-> ZeroWallet]
  /\ withdrawal_requests = <<>>
  /\ wallet_transactions = <<>>
  /\ calls = [add_upcoming_payments |-> 0, move_to_balance |-> 0,
                 admin_edits |-> 0]
  /\ last = NoCall(wallets)
  /\ pc = [p \in Procs |-> "idle"]
  /\ loc = [p \in Procs |-> IdleLoc]
  /\ initial_wallets = wallets

Idle == <<pc, loc, initial_wallets>>

Ledger == <<wallets, withdrawal_requests, wallet_transactions>>

Docs == <<admission_letters, jw02_forms>>

Uploaded(d) == d.pending_verification + d.approved + d.revision_requested

Did(op, result, user, amount, req) ==
  last' = [op |-> op, result |-> result, user |-> user, amount |-> amount,
           req |-> req, before |-> wallets]

\* a view whose only stored effect is one change_application_status call
Transition(a, new_status, by, op, B) ==
  LET c == change_application_status(a, status_history, new_status, by)
  IN  /\ Len(status_history) < B
      /\ app' = c.app
      /\ status_history' = c.history
      /\ Did(op, "ok", by, 0, 0)

(* ----------------------- student and office --------------------------- *)

\* apply_scholarship, action == 'submit', on the student's draft
apply_scholarship ==
  /\ app.status = "draft"
  /\ app' = [app EXCEPT !.status = "submitted"]
  /\ Did("apply_scholarship", "ok", "student", 0, 0)
  /\ UNCHANGED <<status_history, Docs, scholarship, Ledger, calls, Idle>>

submit_application(B) ==
  /\ app.status = "draft"
  /\ Transition(app, "submitted", Office, "submit_application", B)
  /\ UNCHANGED <<Docs, scholarship, Ledger, calls, Idle>>

start_review(B) ==
  /\ app.status = "submitted"
  /\ Transition(app, "under_review", Office, "start_review", B)
  /\ UNCHANGED <<Docs, scholarship, Ledger, calls, Idle>>

verify_documents(B) ==
  /\ app.status = "under_review"
  /\ Transition(app, "documents_verified", Office, "verify_documents", B)
  /\ UNCHANGED <<Docs, scholarship, Ledger, calls, Idle>>

verify_payment(B) ==
  /\ app.status = "documents_verified"
  /\ Transition(app, "payment_verified", Office, "verify_payment", B)
  /\ UNCHANGED <<Docs, scholarship, Ledger, calls, Idle>>

forward_to_agent(B) ==
  /\ app.status = "payment_verified"
  /\ Transition([app EXCEPT !.assigned_agent = TRUE], "payment_verified",
                Office, "forward_to_agent", B)
  /\ UNCHANGED <<Docs, scholarship, Ledger, calls, Idle>>

(* ------------------------------ agent --------------------------------- *)

approve_application(B) ==
  /\ app.assigned_agent
  /\ app.status \in {"submitted", "under_review", "documents_verified",
                     "payment_verified"}
  /\ Transition([app EXCEPT !.assigned_hq = TRUE], "approved", Agent,
                "approve_application", B)
  /\ UNCHANGED <<Docs, scholarship, Ledger, calls, Idle>>

reject_application(B) ==
  /\ app.assigned_agent
  /\ Transition(app, "rejected", Agent, "reject_application", B)
  /\ UNCHANGED <<Docs, scholarship, Ledger, calls, Idle>>

approve_admission_letter(B) ==
  /\ app.assigned_agent
  /\ admission_letters.pending_verification > 0
  /\ admission_letters' =
       [admission_letters EXCEPT !.pending_verification = @ - 1,
                                 !.approved = @ + 1]
  /\ Transition(app, "admission_letter_approved", Agent,
                "approve_admission_letter", B)
  /\ wallets' = add_upcoming_wallets(wallets, app, scholarship)
  /\ wallet_transactions' =
       add_upcoming_log(wallet_transactions, app, scholarship)
  /\ calls' = [calls EXCEPT !.add_upcoming_payments = @ + 1]
  /\ UNCHANGED <<jw02_forms, scholarship, withdrawal_requests, Idle>>

request_revision(B) ==
  /\ app.assigned_agent
  /\ admission_letters' =
       IF admission_letters.pending_verification > 0
       THEN [admission_letters EXCEPT !.pending_verification = @ - 1,
                                      !.revision_requested = @ + 1]
       ELSE admission_letters
  /\ Transition(app, "letter_pending", Agent, "request_revision", B)
  /\ UNCHANGED <<jw02_forms, scholarship, Ledger, calls, Idle>>

approve_jw02(B) ==
  /\ app.assigned_agent
  /\ jw02_forms.pending_verification > 0
  /\ Len(status_history) + 2 <= B
  /\ jw02_forms' = [jw02_forms EXCEPT !.pending_verification = @ - 1,
                                      !.approved = @ + 1]
  /\ LET c1 == change_application_status(app, status_history,
                                         "jw02_approved", Agent)
         c2 == change_application_status(c1.app, c1.history, "complete", Agent)
     IN  /\ app' = c2.app
         /\ status_history' = c2.history
  /\ wallets' = move_to_balance_wallets(wallets, app, scholarship)
  /\ wallet_transactions' =
       move_to_balance_log(wallet_transactions, app, scholarship)
  /\ calls' = [calls EXCEPT !.move_to_balance = @ + 1]
  /\ Did("approve_jw02", "ok", Agent, 0, 0)
  /\ UNCHANGED <<admission_letters, scholarship, withdrawal_requests, Idle>>

request_jw02_revision(B) ==
  /\ app.assigned_agent
  /\ jw02_forms' =
       IF jw02_forms.pending_verification > 0
       THEN [jw02_forms EXCEPT !.pending_verification = @ - 1,
                               !.revision_requested = @ + 1]
       ELSE jw02_forms
  /\ Transition(app, "jw02_pending", Agent, "request_jw02_revision", B)
  /\ UNCHANGED <<admission_letters, scholarship, Ledger, calls, Idle>>

(* --------------------------- headquarters ----------------------------- *)

mark_applied(B) ==
  /\ app.assigned_hq
  /\ app.status = "approved"
  /\ Transition(app, "in_progress", Hq, "mark_applied", B)
  /\ UNCHANGED <<Docs, scholarship, Ledger, calls, Idle>>

upload_admission_letter(B) ==
  /\ app.assigned_hq
  /\ Uploaded(admission_letters) < MaxUploads
  /\ admission_letters' =
       [admission_letters EXCEPT !.pending_verification = @ + 1]
  /\ Transition(app, "admission_letter_uploaded", Hq,
                "upload_admission_letter", B)
  /\ UNCHANGED <<jw02_forms, scholarship, Ledger, calls, Idle>>

upload_jw02(B) ==
  /\ app.assigned_hq
  /\ Uploaded(jw02_forms) < MaxUploads
  /\ jw02_forms' = [jw02_forms EXCEPT !.pending_verification = @ + 1]
  /\ Transition(app, "jw02_uploaded", Hq, "upload_jw02", B)
  /\ UNCHANGED <<admission_letters, scholarship, Ledger, calls, Idle>>

reupload_letter(B) ==
  /\ app.assigned_hq
  /\ admission_letters.revision_requested > 0
  /\ Uploaded(admission_letters) < MaxUploads
  /\ admission_letters' =
       [admission_letters EXCEPT !.pending_verification = @ + 1]
  /\ Transition(app, "admission_letter_uploaded", Hq, "reupload_letter", B)
  /\ UNCHANGED <<jw02_forms, scholarship, Ledger, calls, Idle>>

reupload_jw02(B) ==
  /\ app.assigned_hq
  /\ jw02_forms.revision_requested > 0
  /\ Uploaded(jw02_forms) < MaxUploads
  /\ jw02_forms' = [jw02_forms EXCEPT !.pending_verification = @ + 1]
  /\ Transition(app, "jw02_uploaded", Hq, "reupload_jw02", B)
  /\ UNCHANGED <<admission_letters, scholarship, Ledger, calls, Idle>>

(* ---------------------------- withdrawals ---------------------------- *)

\* agent/views.py and headquarters/views.py request_withdrawal -> services
\* (B bounds the number of stored requests)
request_withdrawal_upto(B, u, amount) ==
  LET res == request_withdrawal_check(wallets[u], amount)
      id  == Len(withdrawal_requests) + 1
  IN  /\ IF res = "ok"
         THEN /\ Len(withdrawal_requests) < B
              /\ wallets' = [wallets EXCEPT ![u] = HoldWallet(@, amount)]
              /\ withdrawal_requests' =
                   Append(withdrawal_requests,
                          NewRequest(u, amount))
              /\ wallet_transactions' =
                   Append(wallet_transactions, WithdrawalTx(u, amount, id))
              /\ Did("request_withdrawal", "ok", u, amount, id)
         ELSE /\ UNCHANGED Ledger
              /\ Did("request_withdrawal", res, u, amount, 0)
      /\ UNCHANGED <<app, status_history, Docs, scholarship, calls, Idle>>

request_withdrawal(u, amount) ==
  request_withdrawal_upto(MaxRequests, u, amount)

\* services.approve_withdrawal called on a stored request
approve_withdrawal_call(r) ==
  LET a == approve_withdrawal(wallets, withdrawal_requests,
                              wallet_transactions, r)
  IN  /\ wallets' = a.wallets
      /\ withdrawal_requests' = a.requests
      /\ wallet_transactions' = a.log
      /\ Did("approve_withdrawal", a.result, "admin", 0, r)
      /\ UNCHANGED <<app, status_history, Docs, scholarship, calls, Idle>>

\* services.reject_withdrawal called on a stored request
reject_withdrawal_call(r) ==
  LET a == reject_withdrawal(wallets, withdrawal_requests,
                             wallet_transactions, r, AdminReason)
  IN  /\ wallets' = a.wallets
      /\ withdrawal_requests' = a.requests
      /\ wallet_transactions' = a.log
      /\ Did("reject_withdrawal", a.result, "admin", 0, r)
      /\ UNCHANGED <<app, status_history, Docs, scholarship, calls, Idle>>

\* WithdrawalRequestAdmin has no other way to change a request: its change
\* form lists a field 'note' the model does not have, so building the form
\* raises FieldError, and the list has no editable column.

\* for withdrawal in queryset.filter(status='pending'): approve / reject.
\* list_display names the foreign key processed_by, so the changelist
\* queryset the action receives carries select_related(): every request row
\* comes with its own Wallet object, read by the one query that starts the
\* loop (loaded), newest request first.
RECURSIVE process_withdrawals(_, _, _, _, _, _, _)
process_withdrawals(loaded, ws, reqs, log, S, i, approve) ==
  IF i = 0 THEN [wallets |-> ws, requests |-> reqs, log |-> log]
  ELSE IF i \in S /\ reqs[i].status = "pending"
       THEN LET w == loaded[reqs[i].wallet]
                a == IF approve
                     THEN approve_withdrawal_loaded(w, ws, reqs, log, i)
                     ELSE reject_withdrawal_loaded(w, ws, reqs, log, i,
                                                   AdminReason)
            IN  process_withdrawals(loaded, a.wallets, a.requests, a.log, S,
                                    i - 1, approve)
       ELSE process_withdrawals(loaded, ws, reqs, log, S, i - 1, approve)

\* WithdrawalRequestAdmin.approve_withdrawals on a selection S
approve_withdrawals(S) ==
  LET a == process_withdrawals(wallets, wallets, withdrawal_requests,
                               wallet_transactions, S,
                               Len(withdrawal_requests), TRUE)
  IN  /\ wallets' = a.wallets
      /\ withdrawal_requests' = a.requests
      /\ wallet_transactions' = a.log
      /\ Did("approve_withdrawals", "ok", "admin", 0, 0)
      /\ UNCHANGED <<app, status_history, Docs, scholarship, calls, Idle>>

\* WithdrawalRequestAdmin.reject_withdrawals on a selection S
reject_withdrawals(S) ==
  LET a == process_withdrawals(wallets, wallets, withdrawal_requests,
                               wallet_transactions, S,
                               Len(withdrawal_requests), FALSE)
  IN  /\ wallets' = a.wallets
      /\ withdrawal_requests' = a.requests
      /\ wallet_transactions' = a.log
      /\ Did("reject_withdrawals", "ok", "admin", 0, 0)
      /\ UNCHANGED <<app, status_history, Docs, scholarship, calls, Idle>>

\* ApplicationAdmin.mark_as_rejected
mark_as_rejected ==
  /\ app.status \notin {"complete", "rejected"}
  /\ app' = [app EXCEPT !.status = "rejected"]
  /\ Did("mark_as_rejected", "ok", "admin", 0, 0)
  /\ UNCHANGED <<status_history, Docs, scholarship, Ledger, calls, Idle>>

\* ScholarshipCommissionAdmin: list_editable agent_commission, hq_commission
set_commissions(ac, hc) ==
  /\ scholarship' = [agent_commission |-> ac, hq_commission |-> hc]
  /\ scholarship' # scholarship
  /\ calls.admin_edits < MaxEdits
  /\ calls' = [calls EXCEPT !.admin_edits = @ + 1]
  /\ Did("set_commissions", "ok", "admin", 0, 0)
  /\ UNCHANGED <<app, status_history, Docs, Ledger, Idle>>

\* ApplicationAdmin change form: assigned_agent and assigned_hq are editable
\* (here: cleared, or set back to the application's agent / HQ user)
set_assignees(agent, hq) ==
  /\ app' = [app EXCEPT !.assigned_agent = agent, !.assigned_hq = hq]
  /\ app' # app
  /\ calls.admin_edits < MaxEdits
  /\ calls' = [calls EXCEPT !.admin_edits = @ + 1]
  /\ Did("set_assignees", "ok", "admin", 0, 0)
  /\ UNCHANGED <<status_history, Docs, scholarship, Ledger, Idle>>

RequestIds == 1..Len(withdrawal_requests)

\* the requests an action's queryset.filter(status='pending') keeps
PendingIds == {r \in RequestIds : withdrawal_requests[r].status = "pending"}

Next ==
  \/ apply_scholarship
  \/ submit_application(MaxHistory)
  \/ start_review(MaxHistory)
  \/ verify_documents(MaxHistory)
  \/ verify_payment(MaxHistory)
  \/ forward_to_agent(MaxHistory)
  \/ approve_application(MaxHistory)
  \/ reject_application(MaxHistory)
  \/ approve_admission_letter(MaxHistory)
  \/ request_revision(MaxHistory)
  \/ approve_jw02(MaxHistory)
  \/ request_jw02_revision(MaxHistory)
  \/ mark_applied(MaxHistory)
  \/ upload_admission_letter(MaxHistory)
  \/ upload_jw02(MaxHistory)
  \/ reupload_letter(MaxHistory)
  \/ reupload_jw02(MaxHistory)
  \/ mark_as_rejected

\* the ledger operations with the role actions that lead to the two
\* commission events
NextLedger ==
  \/ apply_scholarship
  \/ submit_application(MaxLedgerHistory)
  \/ start_review(MaxLedgerHistory)
  \/ verify_documents(MaxLedgerHistory)
  \/ verify_payment(MaxLedgerHistory)
  \/ forward_to_agent(MaxLedgerHistory)
  \/ approve_application(MaxLedgerHistory)
  \/ approve_admission_letter(MaxLedgerHistory)
  \/ approve_jw02(MaxLedgerHistory)
  \/ mark_applied(MaxLedgerHistory)
  \/ upload_admission_letter(MaxLedgerHistory)
  \/ upload_jw02(MaxLedgerHistory)
  \/ \E u \in Parties, amount \in WithdrawAmounts :
       request_withdrawal(u, amount)
  \/ \E r \in RequestIds : approve_withdrawal_call(r)
  \/ \E r \in RequestIds : reject_withdrawal_call(r)
  \/ \E S \in (SUBSET RequestIds) \ {{}} : approve_withdrawals(S)
  \/ \E S \in (SUBSET RequestIds) \ {{}} : reject_withdrawals(S)

\* the role actions that lead to the two commission events, with the admin
\* editing the commissions and the assignees in between
NextAdmin ==
  \/ apply_scholarship
  \/ start_review(MaxAdminHistory)
  \/ verify_documents(MaxAdminHistory)
  \/ verify_payment(MaxAdminHistory)
  \/ forward_to_agent(MaxAdminHistory)
  \/ approve_application(MaxAdminHistory)
  \/ upload_admission_letter(MaxAdminHistory)
  \/ approve_admission_letter(MaxAdminHistory)
  \/ upload_jw02(MaxAdminHistory)
  \/ approve_jw02(MaxAdminHistory)
  \/ \E ac \in AgentCommissions, hc \in HqCommissions : set_commissions(ac, hc)
  \/ \E agent \in BOOLEAN, hq \in BOOLEAN : set_assignees(agent, hq)

Spec == Init /\ [][Next]_vars

SpecAdmin == Init /\ [][NextAdmin]_vars

SpecLedger == Init /\ [][NextLedger]_vars

(* --------------- concurrent requests, statement by statement ---------- *)
(* Two request-handling processes, each running one view.  A view reads   *)
(* its rows into memory, and save() writes the whole in-memory object.    *)
(* Statements outside transaction.atomic commit one by one.               *)

RECURSIVE Replay(_, _, _)
\* the Application row and history after a list of <<new_status, actor>>
Replay(a, h, steps) ==
  IF steps = <<>> THEN [app |-> a, history |-> h]
  ELSE LET c == change_application_status(a, h, Head(steps)[1], Head(steps)[2])
       IN  Replay(c.app, c.history, Tail(steps))

\* apply_scholarship, start_review, verify_documents, verify_payment,
\* forward_to_agent
Forwarded ==
  LET r == Replay([NewApplication EXCEPT !.status = "submitted"], <<>>,
                  << <<"under_review", Office>>,
                     <<"documents_verified", Office>>,
                     <<"payment_verified", Office>> >>)
  IN  Replay([r.app EXCEPT !.assigned_agent = TRUE], r.history,
             << <<"payment_verified", Office>> >>)

\* ... approve_application, mark_applied, upload_admission_letter,
\* approve_admission_letter, upload_jw02, approve_jw02
Completed ==
  Replay([Forwarded.app EXCEPT !.assigned_hq = TRUE], Forwarded.history,
         << <<"approved", Agent>>, <<"in_progress", Hq>>,
            <<"admission_letter_uploaded", Hq>>,
            <<"admission_letter_approved", Agent>>,
            <<"jw02_uploaded", Hq>>,
            <<"jw02_approved", Agent>>, <<"complete", Agent>> >>)

\* ... upload_jw02 once more
UploadedAgain ==
  Replay(Completed.app, Completed.history, << <<"jw02_uploaded", Hq>> >>)

\* the wallets and the log after the credit and the release of that path
PaidWallets(s) ==
  move_to_balance_wallets(
    add_upcoming_wallets([u \in WalletUsers |-> ZeroWallet], Completed.app, s),
    Completed.app, s)

PaidLog(s) ==
  move_to_balance_log(add_upcoming_log(<<>>, Completed.app, s),
                      Completed.app, s)

\* A wallet that can fund two withdrawals, and a request table that grows to
\* two-digit ids: the application of the Completed path, paid with a
\* commission of twice the minimum withdrawal.
QueueScholarship ==
  [agent_commission |-> 2 * MinWithdrawal, hq_commission |-> 0]

InitQueue ==
  /\ app = Completed.app
  /\ status_history = Completed.history
  /\ admission_letters = [NoDocs EXCEPT !.approved = 1]
  /\ jw02_forms = [NoDocs EXCEPT !.approved = 1]
  /\ scholarship = QueueScholarship
  /\ wallets = PaidWallets(QueueScholarship)
  /\ withdrawal_requests = <<>>
  /\ wallet_transactions = PaidLog(QueueScholarship)
  /\ calls = [add_upcoming_payments |-> 1, move_to_balance |-> 1,
              admin_edits |-> 1]
  /\ last = NoCall(wallets)
  /\ pc = [p \in Procs |-> "idle"]
  /\ loc = [p \in Procs |-> IdleLoc]
  /\ initial_wallets = wallets

NextQueue ==
  \/ request_withdrawal_upto(MaxQueue, Agent, MinWithdrawal)
  \/ \E r \in RequestIds : approve_withdrawal_call(r)
  \/ \E r \in RequestIds : reject_withdrawal_call(r)
  \/ \E S \in (SUBSET PendingIds) \ {{}} : approve_withdrawals(S)
  \/ \E S \in (SUBSET PendingIds) \ {{}} : reject_withdrawals(S)

SpecQueue == InitQueue /\ [][NextQueue]_vars

\* ... and u's request_withdrawal of the minimum amount from the paid wallet
Requested(s, u) ==
  [wallets  |-> [PaidWallets(s) EXCEPT ![u] = HoldWallet(@, MinWithdrawal)],
   requests |-> << NewRequest(u, MinWithdrawal) >>,
   log      |-> Append(PaidLog(s), WithdrawalTx(u, MinWithdrawal, 1))]

InitConc ==
  /\ \E ac \in AgentCommissions, hc \in HqCommissions :
       scholarship = [agent_commission |-> ac, hq_commission |-> hc]
  /\ \/ /\ app = Forwarded.app
        /\ status_history = Forwarded.history
        /\ admission_letters = NoDocs
        /\ jw02_forms = NoDocs
        /\ wallets = [u \in WalletUsers |-> ZeroWallet]
        /\ withdrawal_requests = <<>>
        /\ wallet_transactions = <<>>
        /\ calls = [add_upcoming_payments |-> 0, move_to_balance |-> 0,
                 admin_edits |-> 0]
     \/ /\ \/ /\ app = Completed.app
              /\ status_history = Completed.history
              /\ jw02_forms = [NoDocs EXCEPT !.approved = 1]
           \/ /\ app = UploadedAgain.app
              /\ status_history = UploadedAgain.history
              /\ jw02_forms = [NoDocs EXCEPT !.approved = 1,
                                             !.pending_verification = 1]
        /\ admission_letters = [NoDocs EXCEPT !.approved = 1]
        /\ \/ /\ wallets = PaidWallets(scholarship)
              /\ withdrawal_requests = <<>>
              /\ wallet_transactions = PaidLog(scholarship)
           \/ \E u \in Parties :
                /\ request_withdrawal_check(PaidWallets(scholarship)[u],
                                            MinWithdrawal) = "ok"
                /\ wallets = Requested(scholarship, u).wallets
                /\ withdrawal_requests = Requested(scholarship, u).requests
                /\ wallet_transactions = Requested(scholarship, u).log
        /\ calls = [add_upcoming_payments |-> 1, move_to_balance |-> 1,
                 admin_edits |-> 0]
  /\ last = NoCall(wallets)
  /\ pc = [p \in Procs |-> "idle"]
  /\ loc = [p \in Procs |-> IdleLoc]
  /\ initial_wallets = wallets

Rows == <<app, status_history, Docs, scholarship, Ledger, calls>>

Goto(p, label, l) ==
  /\ pc' = [pc EXCEPT ![p] = label]
  /\ loc' = [loc EXCEPT ![p] = l]
  /\ UNCHANGED <<last, initial_wallets>>

\* agent/views.py request_withdrawal: wallet = get_or_create_wallet(user)
read_wallet(p, u, amount) ==
  /\ pc[p] = "idle"
  /\ Goto(p, "request_withdrawal",
          [loc[p] EXCEPT !.op = "request_withdrawal", !.user = u,
                         !.amount = amount, !.wallet[u] = wallets[u]])
  /\ UNCHANGED Rows

\* services.request_withdrawal on the wallet object read by the view
do_request_withdrawal(p) ==
  LET l   == loc[p]
      res == request_withdrawal_check(l.wallet[l.user], l.amount)
      id  == Len(withdrawal_requests) + 1
  IN  /\ pc[p] = "request_withdrawal"
      /\ IF res = "ok"
         THEN /\ wallets' = [wallets EXCEPT ![l.user] =
                               HoldWallet(l.wallet[l.user], l.amount)]
              /\ withdrawal_requests' =
                   Append(withdrawal_requests,
                          NewRequest(l.user, l.amount))
              /\ wallet_transactions' =
                   Append(wallet_transactions,
                          WithdrawalTx(l.user, l.amount, id))
         ELSE UNCHANGED Ledger
      /\ Goto(p, "done", [l EXCEPT !.result = res])
      /\ UNCHANGED <<app, status_history, Docs, scholarship, calls>>

\* approve_application: get_object_or_404 and the status check
read_application(p) ==
  /\ pc[p] = "idle"
  /\ app.assigned_agent
  /\ IF app.status \in {"submitted", "under_review", "documents_verified",
                        "payment_verified"}
     THEN Goto(p, "save_application",
               [loc[p] EXCEPT !.op = "approve_application",
                              !.application = app])
     ELSE Goto(p, "done",
               [loc[p] EXCEPT !.op = "approve_application",
                              !.application = app, !.result = "refused"])
  /\ UNCHANGED Rows

\* change_application_status: application.save()
save_application(p) ==
  /\ pc[p] = "save_application"
  /\ app' = SaveStatus(Stamp([loc[p].application EXCEPT !.assigned_hq = TRUE],
                             "approved", Now(status_history)),
                       "approved")
  /\ Goto(p, "create_history", loc[p])
  /\ UNCHANGED <<status_history, Docs, scholarship, Ledger, calls>>

\* change_application_status: ApplicationStatusHistory.objects.create(...)
create_history(p) ==
  /\ pc[p] = "create_history"
  /\ status_history' = CreateHistory(status_history, loc[p].application.status,
                                     "approved", Agent)
  /\ Goto(p, "done", [loc[p] EXCEPT !.result = "ok"])
  /\ UNCHANGED <<app, Docs, scholarship, Ledger, calls>>

\* the request dies between the two statements (error or kill)
fail_before_history(p) ==
  /\ pc[p] = "create_history"
  /\ Goto(p, "failed", [loc[p] EXCEPT !.result = "error"])
  /\ UNCHANGED Rows

\* approve_jw02: get_object_or_404 and the pending JW02 form
read_jw02(p) ==
  /\ pc[p] = "idle"
  /\ app.assigned_agent
  /\ jw02_forms.pending_verification > 0
  /\ Goto(p, "approve_jw02",
          [loc[p] EXCEPT !.op = "approve_jw02", !.application = app])
  /\ UNCHANGED Rows

\* approve_jw02: jw02.save() and the two change_application_status calls
save_jw02_complete(p) ==
  LET c == Replay(loc[p].application, status_history,
                  << <<"jw02_approved", Agent>>, <<"complete", Agent>> >>)
  IN  /\ pc[p] = "approve_jw02"
      /\ jw02_forms' =
           IF jw02_forms.pending_verification > 0
           THEN [jw02_forms EXCEPT !.pending_verification = @ - 1,
                                   !.approved = @ + 1]
           ELSE jw02_forms
      /\ app' = c.app
      /\ status_history' = c.history
      /\ Goto(p, "move_agent", [loc[p] EXCEPT !.application = c.app])
      /\ UNCHANGED <<admission_letters, scholarship, Ledger, calls>>

\* move_to_balance: agent_wallet = get_or_create_wallet(assigned_agent)
move_read_agent(p) ==
  /\ pc[p] = "move_agent"
  /\ Goto(p, "move_hq", [loc[p] EXCEPT !.wallet[Agent] = wallets[Agent]])
  /\ UNCHANGED Rows

\* move_to_balance: hq_wallet = get_or_create_wallet(assigned_hq)
move_read_hq(p) ==
  /\ pc[p] = "move_hq"
  /\ Goto(p, "move_commit", [loc[p] EXCEPT !.wallet[Hq] = wallets[Hq]])
  /\ UNCHANGED Rows

\* move_to_balance: the agent's wallet and log rows are written, then the HQ
\* part raises; the exception leaves the function's transaction.atomic block
\* and every write made inside it is rolled back
move_fail_hq(p) ==
  /\ pc[p] = "move_hq"
  /\ Goto(p, "failed", [loc[p] EXCEPT !.result = "error"])
  /\ UNCHANGED Rows

\* move_to_balance: the saves and log writes, committed with the transaction
move_commit(p) ==
  LET l == loc[p]
  IN  /\ pc[p] = "move_commit"
      /\ wallets' =
           [u \in WalletUsers |->
              IF Earns(l.application, scholarship, u)
              THEN ReleaseWallet(l.wallet[u], Commission(scholarship, u))
              ELSE wallets[u]]
      /\ wallet_transactions' =
           move_to_balance_log(wallet_transactions, l.application, scholarship)
      /\ calls' = [calls EXCEPT !.move_to_balance = @ + 1]
      /\ Goto(p, "done", [l EXCEPT !.result = "ok"])
      /\ UNCHANGED <<app, status_history, Docs, scholarship,
                     withdrawal_requests>>

\* WithdrawalRequestAdmin action on request r: the changelist query
\* (select_related) reads the request and its wallet; requests that are not
\* pending are filtered out and the loop body does not run
load_withdrawal(p, r, approve) ==
  /\ pc[p] = "idle"
  /\ LET l == [loc[p] EXCEPT
                 !.op = IF approve THEN "approve_withdrawals"
                        ELSE "reject_withdrawals",
                 !.user = withdrawal_requests[r].wallet,
                 !.req = r,
                 !.request = withdrawal_requests[r],
                 !.wallet = wallets]
     IN  IF withdrawal_requests[r].status = "pending"
         THEN Goto(p, "process_withdrawal", l)
         ELSE Goto(p, "done", [l EXCEPT !.result = "filtered"])
  /\ UNCHANGED Rows

\* approve_withdrawal / reject_withdrawal (one atomic block) on the request
\* and wallet objects the query returned
commit_withdrawal(p) ==
  LET l    == loc[p]
      reqs == [withdrawal_requests EXCEPT ![l.req] = l.request]
      a    == IF l.op = "approve_withdrawals"
              THEN approve_withdrawal_loaded(l.wallet[l.user], wallets, reqs,
                                             wallet_transactions, l.req)
              ELSE reject_withdrawal_loaded(l.wallet[l.user], wallets, reqs,
                                            wallet_transactions, l.req,
                                            AdminReason)
  IN  /\ pc[p] = "process_withdrawal"
      /\ wallets' = a.wallets
      /\ withdrawal_requests' = a.requests
      /\ wallet_transactions' = a.log
      /\ Goto(p, "done", [l EXCEPT !.result = a.result])
      /\ UNCHANGED <<app, status_history, Docs, scholarship, calls>>

NextConc ==
  \/ \E p \in Procs, u \in Parties, amount \in WithdrawAmounts :
       read_wallet(p, u, amount)
  \/ \E p \in Procs : do_request_withdrawal(p)
  \/ \E p \in Procs : read_application(p)
  \/ \E p \in Procs : save_application(p)
  \/ \E p \in Procs : create_history(p)
  \/ \E p \in Procs : fail_before_history(p)
  \/ \E p \in Procs : read_jw02(p)
  \/ \E p \in Procs : save_jw02_complete(p)
  \/ \E p \in Procs : move_read_agent(p)
  \/ \E p \in Procs : move_read_hq(p)
  \/ \E p \in Procs : move_fail_hq(p)
  \/ \E p \in Procs : move_commit(p)
  \/ \E p \in Procs, r \in RequestIds, approve \in BOOLEAN :
       load_withdrawal(p, r, approve)
  \/ \E p \in Procs : commit_withdrawal(p)

SpecConc == InitConc /\ [][NextConc]_vars

(* ------------------------------ claims -------------------------------- *)

\* C1: in every reachable state all five fields of every wallet are >= 0.
C1_WalletFieldsNonNegative ==
  \A u \in WalletUsers :
    /\ wallets[u].current_balance >= 0
    /\ wallets[u].upcoming_payments >= 0
    /\ wallets[u].pending_withdrawals >= 0
    /\ wallets[u].total_earned >= 0
    /\ wallets[u].total_withdrawn >= 0

LatestStatus ==
  IF status_history = <<>> THEN "draft"
  ELSE status_history[Len(status_history)].new_status

\* C2: the application's status is the new_status of its latest history
\* entry, or draft when it has no history entry.
C2_StatusIsLatestHistory == app.status = LatestStatus

\* C3: for one application add_upcoming_payments runs at most once and
\* move_to_balance runs at most once.
C3_CommissionEventsAtMostOnce ==
  /\ calls.add_upcoming_payments <= 1
  /\ calls.move_to_balance <= 1

\* C4: jw02_uploaded is entered only after admission_letter_approved was
\* recorded, so move_to_balance never runs before add_upcoming_payments.
C4_Jw02AfterLetterApproval ==
  /\ \A i \in 1..Len(status_history) :
       status_history[i].new_status = "jw02_uploaded" =>
         \E j \in 1..(i - 1) :
           status_history[j].new_status = "admission_letter_approved"
  /\ calls.move_to_balance > 0 => calls.add_upcoming_payments > 0

AllDone == \A p \in Procs : pc[p] \in {"done", "failed"}

\* the wallets after the ledger operation of one request, run alone
Serially(ws, l) ==
  IF l.op = "request_withdrawal"
  THEN IF request_withdrawal_check(ws[l.user], l.amount) = "ok"
       THEN [ws EXCEPT ![l.user] = HoldWallet(@, l.amount)] ELSE ws
  ELSE IF l.op = "approve_jw02"
       THEN move_to_balance_wallets(ws, l.application, scholarship)
       ELSE ws

\* C5: two ledger operations running concurrently on one wallet leave the
\* wallets as some serial order of the two would, and two concurrent
\* withdrawal requests of a with a <= current_balance < 2a do not both
\* succeed.
C5_LedgerOperationsSerialize ==
  AllDone =>
    /\ \E p \in Procs, q \in Procs :
         /\ p # q
         /\ wallets = Serially(Serially(initial_wallets, loc[p]), loc[q])
    /\ \A p \in Procs, q \in Procs :
         ( /\ p # q
           /\ loc[p].op = "request_withdrawal"
           /\ loc[q].op = "request_withdrawal"
           /\ loc[p].user = loc[q].user
           /\ loc[p].amount = loc[q].amount
           /\ loc[p].amount <= initial_wallets[loc[p].user].current_balance
           /\ initial_wallets[loc[p].user].current_balance < 2 * loc[p].amount )
         => ~(loc[p].result = "ok" /\ loc[q].result = "ok")

\* C6: of two approve_application requests that validated the same prior
\* status of the application, at most one performs the transition.
C6_OneTransitionPerPriorStatus ==
  \A p \in Procs, q \in Procs :
    ( /\ p # q
      /\ loc[p].op = "approve_application"
      /\ loc[q].op = "approve_application"
      /\ loc[p].application.status = loc[q].application.status )
    => ~(loc[p].result = "ok" /\ loc[q].result = "ok")

InsideStatusChange == \E p \in Procs : pc[p] = "create_history"

\* C7: the status write and the history append of change_application_status
\* are one atomic unit: outside a running call, also after a failure between
\* the two writes, the stored status has its history entry.
C7_StatusChangeAtomic == ~InsideStatusChange => app.status = LatestStatus

\* C8 (as claimed): request_withdrawal with amount > current_balance fails
\* with the insufficient-funds error and changes nothing.
C8_InsufficientFundsAlways ==
  [][\A u \in WalletUsers, amount \in WithdrawAmounts :
       (request_withdrawal(u, amount) /\ amount > wallets[u].current_balance)
       => (last'.result = "InsufficientFunds" /\ UNCHANGED Ledger)]_vars

\* C8 (amended): request_withdrawal with amount > current_balance fails and
\* changes no wallet field, request or transaction; the error is
\* below-minimum when amount < 100.00 and insufficient-funds otherwise.
C8_OverdrawRefused ==
  [][\A u \in WalletUsers, amount \in WithdrawAmounts :
       (request_withdrawal(u, amount) /\ amount > wallets[u].current_balance)
       => /\ last'.result = IF amount < MinWithdrawal THEN "BelowMinimum"
                             ELSE "InsufficientFunds"
          /\ UNCHANGED Ledger]_vars

C8_Witness ==
  /\ last.op = "request_withdrawal"
  /\ last.result = "InsufficientFunds"
  /\ last.amount > wallets[last.user].current_balance
  /\ wallets[last.user].current_balance > 0

\* C9: request_withdrawal with amount < 100.00 fails with the below-minimum
\* error and changes no wallet field, request or transaction.
C9_BelowMinimumRefused ==
  [][\A u \in WalletUsers, amount \in WithdrawAmounts :
       (request_withdrawal(u, amount) /\ amount < MinWithdrawal)
       => (last'.result = "BelowMinimum" /\ UNCHANGED Ledger)]_vars

C9_Witness ==
  /\ last.op = "request_withdrawal"
  /\ last.result = "BelowMinimum"
  /\ last.amount < MinWithdrawal
  /\ wallets[last.user].current_balance >= last.amount

\* C10: approve_withdrawal on an already approved request fails with the
\* invalid-state error and leaves wallets, requests and log as they were.
C10_SecondApprovalRefused ==
  [][\A r \in RequestIds :
       (approve_withdrawal_call(r) /\ withdrawal_requests[r].status = "approved")
       => (last'.result = "InvalidState" /\ UNCHANGED Ledger)]_vars

C10_Witness ==
  /\ last.op = "approve_withdrawal"
  /\ last.result = "InvalidState"
  /\ withdrawal_requests[last.req].status = "approved"

DecidedNewest ==
  /\ last.req = Len(withdrawal_requests)
  /\ last.req > 0
  /\ wallet_transactions # <<>>
  /\ wallet_transactions[Len(wallet_transactions)].type = "withdrawal"
  /\ wallet_transactions[Len(wallet_transactions)].ref = last.req

\* C12: a successful request_withdrawal of a followed immediately by
\* approve_withdrawal of the created request leaves current_balance lower by
\* a, total_withdrawn higher by a, and pending_withdrawals, upcoming_payments
\* and total_earned as they were before the request.
C12_RequestThenApprove ==
  [][\A r \in RequestIds :
       ( /\ approve_withdrawal_call(r)
         /\ last.op = "request_withdrawal"
         /\ last.result = "ok"
         /\ last.req = r )
       => LET b == last.before[last.user]
              w == wallets'[last.user]
          IN  /\ w.current_balance = b.current_balance - last.amount
              /\ w.total_withdrawn = b.total_withdrawn + last.amount
              /\ w.pending_withdrawals = b.pending_withdrawals
              /\ w.upcoming_payments = b.upcoming_payments
              /\ w.total_earned = b.total_earned]_vars

C12_Witness ==
  /\ last.op = "approve_withdrawal"
  /\ last.result = "ok"
  /\ DecidedNewest
  /\ withdrawal_requests[last.req].status = "approved"

\* C13: a successful request_withdrawal followed by reject_withdrawal of the
\* created request restores current_balance and pending_withdrawals to their
\* values before the request, leaves the other three fields unchanged, and
\* leaves the request rejected with the given reason.
\* (whatever ran in between, the rejection gives back exactly the amount the
\* request had taken from current_balance into pending_withdrawals)
C13_RequestThenReject ==
  [][\A r \in RequestIds :
       /\ ( /\ reject_withdrawal_call(r)
            /\ last.op = "request_withdrawal"
            /\ last.result = "ok"
            /\ last.req = r )
          => /\ wallets'[last.user] = last.before[last.user]
             /\ withdrawal_requests'[r].status = "rejected"
             /\ withdrawal_requests'[r].rejection_reason = AdminReason
       /\ ( /\ reject_withdrawal_call(r)
            /\ withdrawal_requests[r].status = "pending" )
          => LET u == withdrawal_requests[r].wallet
                 a == withdrawal_requests[r].amount
             IN  /\ wallets'[u].current_balance = wallets[u].current_balance + a
                 /\ wallets'[u].pending_withdrawals =
                      wallets[u].pending_withdrawals - a
                 /\ wallets'[u].total_withdrawn = wallets[u].total_withdrawn
                 /\ wallets'[u].total_earned = wallets[u].total_earned
                 /\ wallets'[u].upcoming_payments = wallets[u].upcoming_payments
                 /\ withdrawal_requests'[r].status = "rejected"]_vars

C13_Witness ==
  /\ last.op = "reject_withdrawal"
  /\ last.result = "ok"
  /\ DecidedNewest
  /\ withdrawal_requests[last.req].status = "rejected"
  /\ withdrawal_requests[last.req].rejection_reason = AdminReason

\* the amount a commission event on the application moves for user u
EventAmount(u) ==
  IF u = Agent /\ app.assigned_agent THEN scholarship.agent_commission
  ELSE IF u = Hq /\ app.assigned_hq THEN scholarship.hq_commission
  ELSE 0

\* the positions of the log rows the step appended for wallet u
Appended(u) ==
  {i \in (Len(wallet_transactions) + 1)..Len(wallet_transactions') :
     wallet_transactions'[i].wallet = u}

\* C14: a commission credit of X raises the wallet's upcoming_payments by
\* exactly X and changes no other field of it, changes no wallet of a user
\* other than the assigned agent and HQ, and appends for the wallet one
\* earning transaction, pending, of amount X, tagged with the application.
C14_CreditFrame ==
  [][approve_admission_letter(MaxLedgerHistory) =>
       /\ \A u \in WalletUsers :
            /\ wallets'[u] =
                 [wallets[u] EXCEPT !.upcoming_payments = @ + EventAmount(u)]
            /\ Cardinality(Appended(u)) = IF EventAmount(u) > 0 THEN 1 ELSE 0
            /\ \A i \in Appended(u) :
                 /\ wallet_transactions'[i].type = "earning"
                 /\ wallet_transactions'[i].status = "pending"
                 /\ wallet_transactions'[i].amount = EventAmount(u)
                 /\ wallet_transactions'[i].application = 1
       /\ \A u \in WalletUsers \ Parties : wallets'[u] = wallets[u]
       /\ SubSeq(wallet_transactions', 1, Len(wallet_transactions))
            = wallet_transactions]_vars

C14_Witness ==
  /\ last.op = "approve_admission_letter"
  /\ \A u \in Parties :
       wallets[u].upcoming_payments > last.before[u].upcoming_payments

\* C15: a commission release of X lowers upcoming_payments by X, raises
\* current_balance and total_earned by X, leaves pending_withdrawals and
\* total_withdrawn unchanged, and appends for the wallet one balance_transfer
\* transaction with status completed.
C15_ReleaseFrame ==
  [][approve_jw02(MaxLedgerHistory) =>
       \A u \in WalletUsers :
         /\ wallets'[u] =
              [wallets[u] EXCEPT
                 !.upcoming_payments = @ - EventAmount(u),
                 !.current_balance = @ + EventAmount(u),
                 !.total_earned = @ + EventAmount(u)]
         /\ Cardinality(Appended(u)) = IF EventAmount(u) > 0 THEN 1 ELSE 0
         /\ \A i \in Appended(u) :
              /\ wallet_transactions'[i].type = "balance_transfer"
              /\ wallet_transactions'[i].status = "completed"
              /\ wallet_transactions'[i].amount = EventAmount(u)]_vars

C15_Witness ==
  /\ last.op = "approve_jw02"
  /\ \A u \in Parties :
       /\ wallets[u].current_balance > last.before[u].current_balance
       /\ wallets[u].total_earned > last.before[u].total_earned

\* C16: from one stored state to the next, no wallet's total_earned decreases
\* and no wallet's total_withdrawn decreases (a view that saves a wallet it
\* read before another request's commit writes the old totals back).
C16_TotalsMonotone ==
  [][\A u \in WalletUsers :
       /\ wallets'[u].total_earned >= wallets[u].total_earned
       /\ wallets'[u].total_withdrawn >= wallets[u].total_withdrawn]_vars

\* C17: rejected is terminal: once the application's status is rejected, no
\* action of the office, the agent or HQ changes it again.
C17_RejectedTerminal ==
  [][app.status = "rejected" => app'.status = "rejected"]_vars

\* C18: the status becomes rejected only from submitted, under_review,
\* documents_verified or payment_verified: every history entry with
\* new_status rejected has its old_status among these four.
C18_RejectedOnlyBeforeApproval ==
  \A i \in 1..Len(status_history) :
    status_history[i].new_status = "rejected"
    => status_history[i].old_status \in
         {"submitted", "under_review", "documents_verified",
          "payment_verified"}

\* C19: letter_pending is entered only from admission_letter_uploaded and left
\* only to admission_letter_uploaded; jw02_pending is entered only from
\* jw02_uploaded and left only to jw02_uploaded.
C19_RevisionStatusesLoop ==
  \A i \in 1..Len(status_history) :
    LET e == status_history[i]
    IN  /\ e.new_status = "letter_pending"
            => e.old_status = "admission_letter_uploaded"
        /\ e.new_status = "jw02_pending" => e.old_status = "jw02_uploaded"
        /\ e.old_status = "letter_pending"
            => e.new_status = "admission_letter_uploaded"
        /\ e.old_status = "jw02_pending" => e.new_status = "jw02_uploaded"

\* the agent's balance_transfer rows in a log
AgentTransfers(log) ==
  Cardinality({i \in 1..Len(log) :
                 log[i].wallet = Agent /\ log[i].type = "balance_transfer"})

\* the approve_jw02 requests whose move_to_balance applied the agent's update
AgentUpdateApplied ==
  {p \in Procs :
     /\ loc[p].op = "approve_jw02"
     /\ pc[p] \in {"done", "failed"}
     /\ Earns(loc[p].application, scholarship, Agent)}

\* C20: the agent's and HQ's wallet updates of one commission event are
\* independent atomic units: when the HQ update fails after the agent's
\* update and log entry were applied, the agent's entry stays in the log.
C20_AgentUpdateKept ==
  (\E p \in AgentUpdateApplied : pc[p] = "failed")
  => AgentTransfers(wallet_transactions) =
       AgentTransfers(PaidLog(scholarship)) + Cardinality(AgentUpdateApplied)

\* C21: what move_to_balance releases to a party at JW02 approval is what
\* add_upcoming_payments credited to it at admission-letter approval, so a
\* complete application with one credit and one release leaves every
\* upcoming_payments at zero, whatever the admin edited in between.
C21_ReleaseEqualsCredit ==
  ( /\ app.status = "complete"
    /\ calls.add_upcoming_payments = 1
    /\ calls.move_to_balance = 1 )
  => \A u \in Parties : wallets[u].upcoming_payments = 0

RECURSIVE SumTransactions(_, _, _, _)
\* the sum of the amounts of wallet u's log rows of one type and status
SumTransactions(log, u, type, status) ==
  IF log = <<>> THEN 0
  ELSE (IF Head(log).wallet = u /\ Head(log).type = type
           /\ Head(log).status = status
        THEN Head(log).amount ELSE 0)
       + SumTransactions(Tail(log), u, type, status)

\* C22: every wallet's upcoming_payments equals the sum of the amounts of its
\* earning transactions whose status is pending.
C22_UpcomingMatchesLog ==
  \A u \in WalletUsers :
    wallets[u].upcoming_payments =
      SumTransactions(wallet_transactions, u, "earning", "pending")

\* C23: the history is a chain from the initial state: the first entry's
\* old_status is draft, each later entry's old_status is the previous entry's
\* new_status, and the last new_status is the application's status.
C23_HistoryChainFromDraft ==
  /\ status_history # <<>> => status_history[1].old_status = "draft"
  /\ \A i \in 2..Len(status_history) :
       status_history[i].old_status = status_history[i - 1].new_status
  /\ app.status = LatestStatus

\* C24: complete is terminal: once the application's status is complete no
\* role action changes it, so approve_jw02 (and move_to_balance with it) does
\* not run on a complete application.
C24_CompleteTerminal ==
  [][app.status = "complete"
     => (app'.status = "complete"
         /\ calls'.move_to_balance = calls.move_to_balance)]_vars

\* C25: change_application_status(app, s, actor) sets the status to s, appends
\* exactly one history entry (old_status the status held before the call,
\* new_status s, changed_by actor) to this application's history, stamps
\* approved_date iff s = approved and completed_date iff s = complete, and
\* changes nothing else.
C25_StatusChangeEffects ==
  \A s \in STATUS_CHOICES, actor \in {Office, Agent, Hq} :
    LET c == change_application_status(app, status_history, s, actor)
    IN  /\ c.app.status = s
        /\ c.history =
             status_history \o << [application |-> 1, old_status |-> app.status,
                                   new_status |-> s, changed_by |-> actor] >>
        /\ c.app.approved_date =
             IF s = "approved" THEN Now(status_history) ELSE app.approved_date
        /\ c.app.completed_date =
             IF s = "complete" THEN Now(status_history) ELSE app.completed_date
        /\ c.app.assigned_agent = app.assigned_agent
        /\ c.app.assigned_hq = app.assigned_hq

C25_Witness ==
  /\ last.op = "approve_jw02"
  /\ app.status = "complete"
  /\ app.completed_date = Len(status_history)
  /\ app.approved_date > 0
  /\ app.approved_date < app.completed_date
  /\ status_history[Len(status_history)].old_status = "jw02_approved"

\* C26: request_withdrawal succeeds for every amount with
\* 100.00 <= amount <= current_balance; it lowers current_balance and raises
\* pending_withdrawals by the amount, leaves the other three fields and every
\* other wallet unchanged, creates exactly one request (pending, that wallet,
\* that amount) and appends exactly one pending withdrawal transaction.
C26_WithdrawalRequested ==
  [][\A u \in WalletUsers, amount \in WithdrawAmounts :
       ( /\ request_withdrawal(u, amount)
         /\ MinWithdrawal <= amount
         /\ amount <= wallets[u].current_balance )
       => /\ last'.result = "ok"
          /\ wallets' =
               [wallets EXCEPT
                  ![u].current_balance = @ - amount,
                  ![u].pending_withdrawals = @ + amount]
          /\ withdrawal_requests' =
               withdrawal_requests \o
                 << [wallet |-> u, amount |-> amount, status |-> "pending",
                     rejection_reason |-> "none"] >>
          /\ last'.req = Len(withdrawal_requests')
          /\ Len(wallet_transactions') = Len(wallet_transactions) + 1
          /\ SubSeq(wallet_transactions', 1, Len(wallet_transactions))
               = wallet_transactions
          /\ LET t == wallet_transactions'[Len(wallet_transactions')]
             IN  /\ t.wallet = u
                 /\ t.type = "withdrawal"
                 /\ t.status = "pending"
                 /\ t.amount = amount]_vars

\* the balance was exactly the amount requested, the lower bound included
C26_Witness ==
  /\ last.op = "request_withdrawal"
  /\ last.result = "ok"
  /\ last.amount = MinWithdrawal
  /\ last.before[last.user].current_balance = last.amount
  /\ wallets[last.user].current_balance = 0

\* the log after request r's own pending transaction is given new_status
OwnTransactionUpdated(log, r, new_status) ==
  [i \in 1..Len(log) |->
     IF log[i].type = "withdrawal" /\ log[i].ref = r
        /\ log[i].status = "pending"
     THEN [log[i] EXCEPT !.status = new_status] ELSE log[i]]

\* C27: approving (rejecting) a pending request marks completed (cancelled)
\* exactly the one transaction created together with that request; pending
\* withdrawal transactions of other requests of the wallet stay pending, also
\* when the other request has the same amount and an id that starts with the
\* digits of this request's id.
C27_OwnTransactionOnly ==
  [][\A r \in RequestIds :
       withdrawal_requests[r].status = "pending"
       => /\ approve_withdrawal_call(r)
              => wallet_transactions' =
                   OwnTransactionUpdated(wallet_transactions, r, "completed")
          /\ reject_withdrawal_call(r)
              => wallet_transactions' =
                   OwnTransactionUpdated(wallet_transactions, r, "cancelled")]_vars

\* C28: every wallet (created all-zero) satisfies, in every state reached by
\* add_upcoming_payments, move_to_balance, request_withdrawal,
\* approve_withdrawal and reject_withdrawal,
\* current_balance + pending_withdrawals + total_withdrawn = total_earned.
C28_MoneyConserved ==
  \A u \in WalletUsers :
    wallets[u].current_balance + wallets[u].pending_withdrawals
      + wallets[u].total_withdrawn = wallets[u].total_earned

\* the agent was paid out one withdrawal and keeps the rest as balance, while
\* the HQ user's whole balance is held by a pending request
C28_Witness ==
  /\ calls.move_to_balance > 0
  /\ wallets[Agent].total_withdrawn > 0
  /\ wallets[Agent].current_balance > 0
  /\ wallets[Hq].pending_withdrawals > 0
  /\ \E r \in RequestIds : withdrawal_requests[r].status = "approved"

RECURSIVE SumRequests(_, _, _)
\* the sum of the amounts of wallet u's withdrawal requests of one status
SumRequests(reqs, u, status) ==
  IF reqs = <<>> THEN 0
  ELSE (IF Head(reqs).wallet = u /\ Head(reqs).status = status
        THEN Head(reqs).amount ELSE 0)
       + SumRequests(Tail(reqs), u, status)

\* C29: with the withdrawal operations executed one at a time, every wallet's
\* pending_withdrawals is the sum of the amounts of its pending requests and
\* its total_withdrawn the sum of the amounts of its approved requests.
C29_TotalsMatchRequests ==
  \A u \in WalletUsers :
    /\ wallets[u].pending_withdrawals
         = SumRequests(withdrawal_requests, u, "pending")
    /\ wallets[u].total_withdrawn
         = SumRequests(withdrawal_requests, u, "approved")

\* both processes have finished an admin action on the same request, p an
\* approval and q an approval or a rejection
AdminRaceDone(p, q) ==
  /\ p # q
  /\ pc[p] = "done"
  /\ pc[q] = "done"
  /\ loc[p].op = "approve_withdrawals"
  /\ loc[q].op \in {"approve_withdrawals", "reject_withdrawals"}
  /\ loc[p].req = loc[q].req

====
